---- MODULE Spec2Model ----
(***************************************************************************)
(* Model of CarSequencingColorProblem (car_sequencing_color_problem.py):   *)
(* the instance built by __init__ / _load_instance, the evaluator          *)
(* evaluate_solution and the generator random_solution.                    *)
(*                                                                         *)
(* Python lists are TLA+ sequences.  Python indexes from 0 and TLA+ from   *)
(* 1, so the element the code calls l[i] is l[i + 1] here; the VALUES kept *)
(* in the lists (class indices, candidate entries) stay 0-based as in the  *)
(* code.  Python integers are unbounded; TLC's integers are 32 bits wide,  *)
(* so the families below keep every score under 2^31.                      *)
(***************************************************************************)
EXTENDS Integers, Sequences, FiniteSets, TLC

\* ---------------------------------------------------------------- constants
COLOR_HIGH_LOW == 0
HIGH_LOW_COLOR == 1
HIGH_COLOR_LOW == 2
COLOR_HIGH == 3
HIGH_COLOR == 4

PENALTY == 1000000000
M == 10000

\* ------------------------------------------------------------------- bounds
\* Largest nb_positions of the general input family.
MaxPositions == 3

\* ------------------------------------------------------- python primitives
Max(a, b) == IF a >= b THEN a ELSE b

\* list(range(a, b))
PyRange(a, b) == [i \in 1..Max(b - a, 0) |-> a + i - 1]

\* l[i] is defined (no IndexError): Python also accepts -len(l) <= i < 0.
InRange(l, i) == -Len(l) <= i /\ i < Len(l)

\* l[i]; the default d stands in where Python raises IndexError (the caller
\* decides with InRange whether the exception is raised).
PyGet(l, i, d) ==
    IF ~InRange(l, i) THEN d
    ELSE IF i >= 0 THEN l[i + 1] ELSE l[Len(l) + i + 1]

\* sorted(l): a new list, ascending (insertion of the head into the sorted tail).
RECURSIVE Insert(_, _)
Insert(x, l) ==
    IF l = <<>> THEN <<x>>
    ELSE IF x <= Head(l) THEN <<x>> \o l
    ELSE <<Head(l)>> \o Insert(x, Tail(l))

RECURSIVE Sorted(_)
Sorted(l) == IF l = <<>> THEN <<>> ELSE Insert(Head(l), Sorted(Tail(l)))

\* [c] * count
RECURSIVE Repeat(_, _)
Repeat(c, count) == IF count <= 0 THEN <<>> ELSE <<c>> \o Repeat(c, count - 1)

\* Every order in which the indices in I can be listed.
RECURSIVE Arrangements(_)
Arrangements(I) ==
    IF I = {} THEN {<<>>}
    ELSE UNION {{<<i>> \o rest : rest \in Arrangements(I \ {i})} : i \in I}

\* The orders random.shuffle can leave a list in: every arrangement of it.
Shuffles(l) ==
    {[i \in 1..Len(l) |-> l[f[i]]] : f \in Arrangements(1..Len(l))}

\* -------------------------------------------------------------------- state
VARIABLES
    pc,                        \* where the caller stands (see PcValues)
    nb_positions, nb_options, paint_batch_limit, objective_order,
    start_position, max_cars_per_window, window_size, is_priority_option,
    has_low_priority_options, color_class, options_data, initial_sequence,
    passed,                    \* the candidate as the caller built it
    solution_is_list,          \* isinstance(solution, (list, tuple))
    solution,                  \* the caller's candidate object after the call
    sequence,                  \* locals of evaluate_solution at its return
    objective_color, objective_high_priority, objective_low_priority,
    result                     \* the value returned (a number or a list)

instance == <<nb_positions, nb_options, paint_batch_limit, objective_order,
              start_position, max_cars_per_window, window_size,
              is_priority_option, has_low_priority_options, color_class,
              options_data, initial_sequence>>

frame == <<passed, solution_is_list, solution, sequence, objective_color,
           objective_high_priority, objective_low_priority, result>>

vars == <<pc, instance, frame>>

\* "new": no instance yet.  "ValueError": the constructor raised.  "ready": an
\* instance exists and no call is in progress.  The others name the statement
\* a call has reached: the three early returns of evaluate_solution (lines
\* 151, 154, 158), its final return (204), an IndexError escaping it, and the
\* return of random_solution (216).
PcValues == {"new", "ValueError", "ready", "return_151", "return_154",
             "return_158", "return_204", "IndexError", "return_216"}

\* A local that was never assigned.
Unset == -1

NoFrame ==
    /\ passed = <<>>
    /\ solution_is_list = TRUE
    /\ solution = <<>>
    /\ sequence = <<>>
    /\ objective_color = Unset
    /\ objective_high_priority = Unset
    /\ objective_low_priority = Unset
    /\ result = <<>>

Init ==
    /\ pc = "new"
    /\ nb_positions = 0 /\ nb_options = 0 /\ paint_batch_limit = 0
    /\ objective_order = 0 /\ start_position = 0
    /\ max_cars_per_window = <<>> /\ window_size = <<>>
    /\ is_priority_option = <<>> /\ has_low_priority_options = FALSE
    /\ color_class = <<>> /\ options_data = <<>> /\ initial_sequence = <<>>
    /\ NoFrame

\* ------------------------------------------------------------ construction
\* __init__ with every parameter given: the twelve fields are stored as
\* passed, with no check and no normalisation.
StoreParameters(p) ==
    /\ nb_positions' = p.nb_positions
    /\ nb_options' = p.nb_options
    /\ paint_batch_limit' = p.paint_batch_limit
    /\ objective_order' = p.objective_order
    /\ start_position' = p.start_position
    /\ max_cars_per_window' = p.max_cars_per_window
    /\ window_size' = p.window_size
    /\ is_priority_option' = p.is_priority_option
    /\ has_low_priority_options' = p.has_low_priority_options
    /\ color_class' = p.color_class
    /\ options_data' = p.options_data
    /\ initial_sequence' = p.initial_sequence

\* __init__(instance_file=None, ...): ValueError when a parameter is None
\* (p.missing), otherwise the fields are stored.
InitFromParameters(p) ==
    /\ pc = "new"
    /\ IF p.missing
         THEN pc' = "ValueError" /\ UNCHANGED instance
         ELSE pc' = "ready" /\ StoreParameters(p)
    /\ UNCHANGED frame

\* The adjustment of objective_order for an instance with no low priority
\* option.
AdjustedOrder(order, has_low) ==
    IF has_low THEN order
    ELSE IF order = COLOR_HIGH_LOW THEN COLOR_HIGH
    ELSE IF order = HIGH_COLOR_LOW THEN HIGH_COLOR
    ELSE IF order = HIGH_LOW_COLOR THEN HIGH_COLOR
    ELSE order

\* initial_sequence of a file: class c repeated nb_cars_per_class[c] times,
\* classes in order.
RECURSIVE BuildInitialSequence(_, _)
BuildInitialSequence(counts, c) ==
    IF c >= Len(counts) THEN <<>>
    ELSE Repeat(c, counts[c + 1]) \o BuildInitialSequence(counts, c + 1)

\* _load_instance on a file whose tokens are f.  The fields are assigned while
\* the tokens are read, so they stay assigned when the final length check
\* raises; the object is then never handed to the caller.
LoadInstance(f) ==
    LET prio == [o \in 1..f.nb_options |-> f.options[o].flag = 1]
        has_low == \E o \in 1..f.nb_options : ~prio[o]
        built == BuildInitialSequence([c \in 1..Len(f.classes) |->
                                          f.classes[c].count], 0)
    IN  /\ pc = "new"
        /\ nb_positions' = f.nb_positions
        /\ nb_options' = f.nb_options
        /\ paint_batch_limit' = f.paint_batch_limit
        /\ start_position' = f.start_position
        /\ max_cars_per_window' = [o \in 1..f.nb_options |-> f.options[o].max]
        /\ window_size' = [o \in 1..f.nb_options |-> f.options[o].window]
        /\ is_priority_option' = prio
        /\ has_low_priority_options' = has_low
        /\ objective_order' = AdjustedOrder(f.objective_order, has_low)
        /\ color_class' = [c \in 1..Len(f.classes) |-> f.classes[c].color]
        /\ options_data' = [c \in 1..Len(f.classes) |->
                              [o \in 1..f.nb_options |-> f.classes[c].opts[o] = 1]]
        /\ initial_sequence' = built
        /\ pc' = IF Len(built) # f.nb_positions THEN "ValueError" ELSE "ready"
        /\ UNCHANGED frame

\* -------------------------------------------------------- evaluate_solution
\* The first check: a list or tuple of nb_positions entries.
HasRightLength(is_list, s) == is_list /\ Len(s) = nb_positions

\* A permutation check that only tests the range of the entries.
IsPermutation_RangeOnly(s) ==
    \A p \in 1..Len(s) : 0 <= s[p] /\ s[p] < nb_positions

\* The second check: sorted(solution) == list(range(nb_positions)).
IsPermutation(s) == Sorted(s) = PyRange(0, nb_positions)

\* The third check, the loop over p in range(start_position): the first p at
\* which it stops, or -1 when it runs to its end.  It stops where solution[p]
\* differs from p, and also where p is no index of solution (IndexError).
RECURSIVE PrefixStop(_, _)
PrefixStop(s, p) ==
    IF p >= start_position THEN -1
    ELSE IF ~InRange(s, p) THEN p
    ELSE IF PyGet(s, p, -1) # p THEN p
    ELSE PrefixStop(s, p + 1)

\* sequence = [initial_sequence[i] for i in solution]
Reconstruct(s) == [p \in 1..Len(s) |-> PyGet(initial_sequence, s[p], 0)]

\* The color loop from p up to stop - 1: one more for each change of color
\* between positions p and p + 1.
RECURSIVE ColorLoop(_, _, _)
ColorLoop(seq, p, stop) ==
    IF p >= stop THEN 0
    ELSE (IF PyGet(color_class, PyGet(seq, p, 0), 0)
              # PyGet(color_class, PyGet(seq, p + 1, 0), 0) THEN 1 ELSE 0)
         + ColorLoop(seq, p + 1, stop)

\* A color scan that starts at the first free position.
ColorFirst_FreeOnly == Max(start_position, 0)

\* range(max(self.start_position - 1, 0), self.nb_positions - 1)
ColorFirst == Max(start_position - 1, 0)
ColorStop == nb_positions - 1

ObjectiveColor(seq) == ColorLoop(seq, ColorFirst, ColorStop)

\* The loop over k in range(win): the cars of the window starting at j that
\* require option o.
RECURSIVE WindowCount(_, _, _, _, _)
WindowCount(seq, o, j, k, win) ==
    IF k >= win THEN 0
    ELSE (IF PyGet(PyGet(options_data, PyGet(seq, j + k, 0), <<>>), o, FALSE)
            THEN 1 ELSE 0)
         + WindowCount(seq, o, j, k + 1, win)

\* A window scan that starts at the first free position.
WindowFirst_FreeOnly(win) == Max(0, start_position)

\* start_idx and the end of range(start_idx, nb_positions - win + 1).
WindowFirst(win) == Max(0, start_position - win + 1)
WindowStop(win) == nb_positions - win + 1

\* The loop over the windows j of option o: the sum of the excesses.
RECURSIVE WindowLoop(_, _, _, _)
WindowLoop(seq, o, j, stop) ==
    IF j >= stop THEN 0
    ELSE Max(WindowCount(seq, o, j, 0, PyGet(window_size, o, 0))
                - PyGet(max_cars_per_window, o, 0), 0)
         + WindowLoop(seq, o, j + 1, stop)

OptionViolation(seq, o) ==
    WindowLoop(seq, o, WindowFirst(PyGet(window_size, o, 0)),
               WindowStop(PyGet(window_size, o, 0)))

\* The loop over o in range(nb_options), for one of the two accumulators:
\* high is TRUE for objective_high_priority, FALSE for objective_low_priority.
RECURSIVE OptionLoop(_, _, _)
OptionLoop(seq, o, high) ==
    IF o >= nb_options THEN 0
    ELSE (IF PyGet(is_priority_option, o, TRUE) = high
            THEN OptionViolation(seq, o) ELSE 0)
         + OptionLoop(seq, o + 1, high)

ObjectiveHighPriority(seq) == OptionLoop(seq, 0, TRUE)
ObjectiveLowPriority(seq) == OptionLoop(seq, 0, FALSE)

\* A combination whose HIGH_LOW_COLOR and HIGH_COLOR_LOW formulas are exchanged.
Overall_Exchanged(order, color, high, low) ==
    IF order = COLOR_HIGH_LOW THEN color * (M * M) + high * M + low
    ELSE IF order = HIGH_LOW_COLOR THEN high * (M * M) + color * M + low
    ELSE IF order = HIGH_COLOR_LOW THEN high * (M * M) + low * M + color
    ELSE IF order = COLOR_HIGH THEN color * M + high
    ELSE IF order = HIGH_COLOR THEN high * M + color
    ELSE color + high + low

\* A combination that scales the leading term by M where M * M is needed.
Overall_OneScale(order, color, high, low) ==
    IF order = COLOR_HIGH_LOW THEN color * M + high * M + low
    ELSE IF order = HIGH_LOW_COLOR THEN high * M + low * M + color
    ELSE IF order = HIGH_COLOR_LOW THEN high * M + color * M + low
    ELSE IF order = COLOR_HIGH THEN color * M + high
    ELSE IF order = HIGH_COLOR THEN high * M + color
    ELSE color + high + low

\* The combination selected by objective_order.
Overall(order, color, high, low) ==
    IF order = COLOR_HIGH_LOW THEN color * (M * M) + high * M + low
    ELSE IF order = HIGH_LOW_COLOR THEN high * (M * M) + low * M + color
    ELSE IF order = HIGH_COLOR_LOW THEN high * (M * M) + color * M + low
    ELSE IF order = COLOR_HIGH THEN color * M + high
    ELSE IF order = HIGH_COLOR THEN high * M + color
    ELSE color + high + low

\* An index used after the three checks is out of range: the list comprehension
\* of line 161, color_class in the color loop, the per-option arrays, and
\* options_data / is_priority_option inside each window.
RaisesIndexError(s) ==
    LET seq == Reconstruct(s) IN
    \/ \E p \in 1..Len(s) : ~InRange(initial_sequence, s[p])
    \/ \E p \in ColorFirst..(ColorStop - 1) :
          \/ ~InRange(color_class, PyGet(seq, p, 0))
          \/ ~InRange(color_class, PyGet(seq, p + 1, 0))
    \/ \E o \in 0..(nb_options - 1) :
          \/ ~InRange(window_size, o)
          \/ ~InRange(max_cars_per_window, o)
          \/ LET win == PyGet(window_size, o, 0) IN
             \E j \in WindowFirst(win)..(WindowStop(win) - 1) :
                \/ ~InRange(is_priority_option, o)
                \/ \E k \in 0..(win - 1) :
                      \/ ~InRange(options_data, PyGet(seq, j + k, 0))
                      \/ ~InRange(PyGet(options_data, PyGet(seq, j + k, 0), <<>>), o)

\* A permutation check that sorts the caller's list in place.
SolutionAfterCall_SortedInPlace(s) == Sorted(s)

\* What the call leaves in the caller's candidate: sorted() and the list
\* comprehension build new lists, and nothing assigns into solution.
SolutionAfterCall(s) == s

\* A call that leaves before line 161: no local of the scoring part is set.
LeaveEarly(where, value) ==
    /\ pc' = where
    /\ result' = value
    /\ sequence' = <<>>
    /\ objective_color' = Unset
    /\ objective_high_priority' = Unset
    /\ objective_low_priority' = Unset

\* evaluate_solution(solution), from its first statement to the statement
\* that leaves it.
EvaluateSolution(is_list, s) ==
    /\ pc = "ready"
    /\ passed' = s
    /\ solution_is_list' = is_list
    /\ solution' = SolutionAfterCall(s)
    /\ UNCHANGED instance
    /\ IF ~HasRightLength(is_list, s) THEN LeaveEarly("return_151", PENALTY)
       ELSE IF ~IsPermutation(s) THEN LeaveEarly("return_154", PENALTY)
       ELSE IF PrefixStop(s, 0) # -1 /\ InRange(s, PrefixStop(s, 0))
         THEN LeaveEarly("return_158", PENALTY)
       ELSE IF PrefixStop(s, 0) # -1 \/ RaisesIndexError(s)
         THEN LeaveEarly("IndexError", <<>>)
       ELSE LET seq == Reconstruct(s)
                color == ObjectiveColor(seq)
                high == ObjectiveHighPriority(seq)
                low == ObjectiveLowPriority(seq)
            IN  /\ pc' = "return_204"
                /\ sequence' = seq
                /\ objective_color' = color
                /\ objective_high_priority' = high
                /\ objective_low_priority' = low
                /\ result' = Overall(objective_order, color, high, low)

\* ---------------------------------------------------------- random_solution
\* The two parts concatenated the other way round.
RandomResult_FixedLast(shuffled) == shuffled \o PyRange(0, start_position)

\* fixed + remaining, where shuffled is the order random.shuffle left
\* remaining in.
RandomResult(shuffled) == PyRange(0, start_position) \o shuffled

RandomSolution ==
    /\ pc = "ready"
    /\ \E shuffled \in Shuffles(PyRange(start_position, nb_positions)) :
          result' = RandomResult(shuffled)
    /\ pc' = "return_216"
    /\ UNCHANGED <<instance, passed, solution_is_list, solution, sequence,
                   objective_color, objective_high_priority,
                   objective_low_priority>>

\* The call is over: its locals are gone and the caller is free to call again.
Return ==
    /\ pc \in {"return_151", "return_154", "return_158", "return_204",
               "IndexError", "return_216"}
    /\ pc' = "ready"
    /\ passed' = <<>>
    /\ solution_is_list' = TRUE
    /\ solution' = <<>>
    /\ sequence' = <<>>
    /\ objective_color' = Unset
    /\ objective_high_priority' = Unset
    /\ objective_low_priority' = Unset
    /\ result' = <<>>
    /\ UNCHANGED instance

\* ------------------------------------------------------------ input families
\* objective_order: the five named codes and one code that is none of them.
OrderCodes == 0..5

PaintBatchLimits == {2}

\* color_class: two classes, of one color or of two.
ColorTables == {<<1, 1>>, <<1, 2>>}

\* <<max_cars_per_window, window_size>> of an option.
OptionLimits == {<<0, 1>>, <<1, 2>>, <<1, 3>>}

\* An instance file writes the priority flag of an option as an integer token;
\* a token other than 1 reads as "not high priority".
PriorityTokens == {0, 1, 2}

\* The option tables of the general family, an entry being
\* <<max_cars_per_window, window_size, priority token>>: no option, any single
\* option, or a high priority option <<0, 1>> with a low priority one <<1, 2>>.
OptionTables ==
    {<<>>}
    \cup {<<<<l[1], l[2], t>>>> : l \in OptionLimits, t \in PriorityTokens}
    \cup {<<<<0, 1, 1>>, <<1, 2, 0>>>>}

\* A consistent parameter set for __init__: every array has the length the
\* counts announce and has_low_priority_options is what is_priority_option
\* says.
Parameters(n, ord, sp, opts, col, req, plan) ==
    [missing |-> FALSE,
     nb_positions |-> n, nb_options |-> Len(opts),
     paint_batch_limit |-> CHOOSE b \in PaintBatchLimits : TRUE,
     objective_order |-> ord, start_position |-> sp,
     max_cars_per_window |-> [o \in 1..Len(opts) |-> opts[o][1]],
     window_size |-> [o \in 1..Len(opts) |-> opts[o][2]],
     is_priority_option |-> [o \in 1..Len(opts) |-> opts[o][3] = 1],
     has_low_priority_options |-> (\E o \in 1..Len(opts) : opts[o][3] # 1),
     color_class |-> col, options_data |-> req, initial_sequence |-> plan]

\* A call of __init__ that leaves a parameter out.
MissingParameters ==
    {[missing |-> TRUE,
      nb_positions |-> 0, nb_options |-> 0, paint_batch_limit |-> 0,
      objective_order |-> 0, start_position |-> 0,
      max_cars_per_window |-> <<>>, window_size |-> <<>>,
      is_priority_option |-> <<>>, has_low_priority_options |-> FALSE,
      color_class |-> <<>>, options_data |-> <<>>, initial_sequence |-> <<>>]}

\* The integer tokens of an instance file: the six header values, a triple per
\* option, and per class its color, its number of cars and a 0/1 token per
\* option.
File(n, ord, sp, opts, col, cnt, tok) ==
    [nb_positions |-> n, nb_options |-> Len(opts),
     paint_batch_limit |-> CHOOSE b \in PaintBatchLimits : TRUE,
     objective_order |-> ord, start_position |-> sp,
     options |-> [o \in 1..Len(opts) |->
                    [max |-> opts[o][1], window |-> opts[o][2], flag |-> opts[o][3]]],
     classes |-> [c \in 1..Len(col) |->
                    [color |-> col[c], count |-> cnt[c], opts |-> tok[c]]]]

\* Candidates a caller may pass for an instance of n positions: every
\* permutation of 0..n-1; the identity one entry short and one entry long; the
\* identity with one entry replaced by -1, by n or by its neighbour's value
\* (a duplicate and an omission); and the identity held in an object that is
\* neither a list nor a tuple.
Malformed(n) ==
    {PyRange(0, n + 1)}
    \cup (IF n > 0 THEN {PyRange(0, n - 1)} ELSE {})
    \cup UNION {{[PyRange(0, n) EXCEPT ![i] = v] : v \in {-1, n, i % n}} : i \in 1..n}

Candidates(n) ==
    {<<TRUE, s>> : s \in Shuffles(PyRange(0, n)) \cup Malformed(n)}
    \cup {<<FALSE, PyRange(0, n)>>}

\* ----------------------------------------------------------- specifications
\* __init__ with parameters: a consistent set with start_position in
\* 0..nb_positions, or a call that leaves a parameter out.
Construct ==
    /\ pc = "new"
    /\ \/ \E n \in 0..MaxPositions, opts \in OptionTables, col \in ColorTables :
            \E ord \in OrderCodes, sp \in 0..n,
               req \in [1..Len(col) -> [1..Len(opts) -> BOOLEAN]],
               plan \in [1..n -> 0..(Len(col) - 1)] :
                 InitFromParameters(Parameters(n, ord, sp, opts, col, req, plan))
       \/ \E p \in MissingParameters : InitFromParameters(p)

\* __init__ with an instance file whose class counts may or may not add up to
\* nb_positions.
Load ==
    /\ pc = "new"
    /\ \E n \in 0..MaxPositions, opts \in OptionTables, col \in ColorTables :
          \E ord \in OrderCodes, sp \in 0..n,
             cnt \in [1..Len(col) -> 0..n],
             tok \in [1..Len(col) -> [1..Len(opts) -> {0, 1}]] :
               LoadInstance(File(n, ord, sp, opts, col, cnt, tok))

Evaluate ==
    /\ pc = "ready"
    /\ \E c \in Candidates(nb_positions) : EvaluateSolution(c[1], c[2])

Next == Construct \/ Load \/ Evaluate \/ RandomSolution \/ Return

Spec == Init /\ [][Next]_vars

\* ------------------------------------------------------- production plans
\* Longer plans, each evaluated on few candidates: two classes alternating
\* over 5 positions with up to two options, and over 11 positions with at most
\* one option (with more its scores would leave TLC's 32 bits).
Alternating(n) == [p \in 1..n |-> (p - 1) % 2]

PlanOptionKinds == {<<l[1], l[2], t>> : l \in OptionLimits, t \in {0, 1}}

PlanOptionTables(n) ==
    {<<>>} \cup {<<a>> : a \in PlanOptionKinds}
    \cup (IF n <= 5 THEN {<<a, b>> : a, b \in PlanOptionKinds} ELSE {})

PlanLengths == {5, 11}

PlanStarts == {0, 2}

ConstructPlan ==
    /\ pc = "new"
    /\ \E n \in PlanLengths :
         \E opts \in PlanOptionTables(n), col \in ColorTables :
            \E ord \in OrderCodes, sp \in PlanStarts,
               req \in [1..Len(col) -> [1..Len(opts) -> BOOLEAN]] :
                 InitFromParameters(
                     Parameters(n, ord, sp, opts, col, req, Alternating(n)))

\* Candidates near the identity: the identity, the identity reversed, the
\* identity with two neighbours exchanged, and the malformed ones.
NearIdentity(n) ==
    {PyRange(0, n), [p \in 1..n |-> n - p]}
    \cup {[PyRange(0, n) EXCEPT ![i] = i, ![i + 1] = i - 1] : i \in 1..(n - 1)}

EvaluateNear ==
    /\ pc = "ready"
    /\ \E s \in NearIdentity(nb_positions) \cup Malformed(nb_positions) :
          EvaluateSolution(TRUE, s)

NextPlans == ConstructPlan \/ EvaluateNear \/ Return

SpecPlans == Init /\ [][NextPlans]_vars

\* ------------------------------------------------------- unchecked data
\* Parameter sets for __init__ that nothing vets: start_position from -1 to
\* nb_positions + 1, a plan one entry short or long whose entries run from -1
\* to the number of classes (so below and above the class indices), per-option
\* arrays and requirement vectors whose length need not be nb_options.
RawColors == <<1, 2>>

RawParameters(n, ord, sp, k, arrays, prio, vectors, plan) ==
    [missing |-> FALSE,
     nb_positions |-> n, nb_options |-> k,
     paint_batch_limit |-> CHOOSE b \in PaintBatchLimits : TRUE,
     objective_order |-> ord, start_position |-> sp,
     max_cars_per_window |-> [o \in 1..arrays |-> 1],
     window_size |-> [o \in 1..arrays |-> 2],
     is_priority_option |-> [o \in 1..arrays |-> prio],
     has_low_priority_options |-> (arrays > 0 /\ ~prio),
     color_class |-> RawColors,
     options_data |-> [c \in 1..Len(RawColors) |-> [o \in 1..vectors |-> TRUE]],
     initial_sequence |-> plan]

ConstructRaw ==
    /\ pc = "new"
    /\ \E n \in 0..(MaxPositions - 1), len \in {-1, 0, 1} :
         \E ord \in {COLOR_HIGH_LOW, 5}, sp \in (-1)..(n + 1),
            k \in {0, 1}, arrays \in {0, 1}, prio \in BOOLEAN,
            vectors \in {0, 1}, plan \in [1..(n + len) -> (-1)..Len(RawColors)] :
              InitFromParameters(
                  RawParameters(n, ord, sp, k, arrays, prio, vectors, plan))

NextRaw == ConstructRaw \/ Evaluate \/ RandomSolution \/ Return

SpecRaw == Init /\ [][NextRaw]_vars


\* A call of evaluate_solution has reached the statement that leaves it.
Evaluated == pc \in {"return_151", "return_154", "return_158", "return_204",
                     "IndexError"}

\* The sum of f over the finite set S.
RECURSIVE SumOver(_, _)
SumOver(S, f) ==
    IF S = {} THEN 0
    ELSE LET x == CHOOSE y \in S : TRUE IN f[x] + SumOver(S \ {x}, f)

\* The identity candidate of the instance.
Identity == [p \in 1..nb_positions |-> p - 1]

\* The candidate s is a permutation of 0..nb_positions-1.
Permutes(s) ==
    /\ Len(s) = nb_positions
    /\ \A v \in 0..(nb_positions - 1) :
          Cardinality({p \in 1..Len(s) : s[p] = v}) = 1

\* Some position of the fixed prefix does not hold its own index.
BreaksPrefix(s) ==
    \E p \in 0..(start_position - 1) : p < Len(s) /\ s[p + 1] # p

\* The class at (0-based) position p of the reconstructed sequence, its color,
\* and whether it requires (0-based) option o.
ClassAt(p) == sequence[p + 1]
ColorAt(p) == color_class[ClassAt(p) + 1]
RequiresAt(p, o) == options_data[ClassAt(p) + 1][o + 1]

\* The candidate s with the entries at 0-based positions i and i + 1 exchanged.
SwapAdjacent(s, i) == [s EXCEPT ![i + 1] = s[i + 2], ![i + 2] = s[i + 1]]

\* ---------------------------------------------------------------------- C1
\* C1: a candidate that fails one of the three validation checks (its length
\* is not nb_positions, or its contents are not exactly 0..nb_positions-1, or
\* a position of the fixed prefix does not hold its own index) makes
\* evaluate_solution return PENALTY from one of its three early returns, with
\* no objective computed.
C1_InvalidCandidateGetsPenalty ==
    (Evaluated /\ solution_is_list
       /\ (Len(passed) # nb_positions \/ ~Permutes(passed) \/ BreaksPrefix(passed)))
    => /\ pc \in {"return_151", "return_154", "return_158"}
       /\ result = PENALTY
       /\ sequence = <<>>
       /\ objective_color = Unset
       /\ objective_high_priority = Unset
       /\ objective_low_priority = Unset

\* C1 witness: a genuine permutation that moves a fixed position was passed
\* and the call left through the third early return with the penalty.
C1_Witness ==
    /\ pc = "return_158"
    /\ nb_positions = 2 /\ start_position = 1
    /\ passed = <<1, 0>>
    /\ result = PENALTY

\* ---------------------------------------------------------------------- C5
\* The windows of option o scanned by the claim: starts
\* max(0, start_position - w + 1) .. nb_positions - w.
C5_Starts(o) ==
    Max(0, start_position - window_size[o + 1] + 1)
        .. (nb_positions - window_size[o + 1])

\* The cars requiring o in the window of option o that starts at j.
C5_Occupancy(o, j) ==
    Cardinality({p \in j..(j + window_size[o + 1] - 1) : RequiresAt(p, o)})

\* The violation sum of option o.
C5_ViolationSum(o) ==
    SumOver(C5_Starts(o),
            [j \in C5_Starts(o) |->
                Max(C5_Occupancy(o, j) - max_cars_per_window[o + 1], 0)])

\* The total over the options whose priority flag is high.
C5_Total(high) ==
    LET opts == {o \in 0..(nb_options - 1) : is_priority_option[o + 1] = high}
    IN  SumOver(opts, [o \in opts |-> C5_ViolationSum(o)])

\* C5: for a valid candidate the reconstructed sequence is
\* initial_sequence[candidate[p]], each option's violation sum is the sum of
\* max(count - cap, 0) over the windows starting at
\* max(0, start_position - w + 1) .. nb_positions - w, it goes to the high
\* total when the option is high priority and to the low total otherwise, the
\* totals are non-negative, they are zero when no scanned window exceeds its
\* capacity (in particular when every window is longer than the sequence), and
\* the plan [0,0,0] with one option (w = 2, cap = 1, required by class 0)
\* totals 2.
C5_WindowViolations ==
    pc = "return_204" =>
      /\ sequence = [p \in 1..nb_positions |-> initial_sequence[passed[p] + 1]]
      /\ objective_high_priority = C5_Total(TRUE)
      /\ objective_low_priority = C5_Total(FALSE)
      /\ objective_high_priority >= 0 /\ objective_low_priority >= 0
      /\ (\A o \in 0..(nb_options - 1) : \A j \in C5_Starts(o) :
             C5_Occupancy(o, j) <= max_cars_per_window[o + 1])
           => (objective_high_priority = 0 /\ objective_low_priority = 0)
      /\ (\A o \in 0..(nb_options - 1) : window_size[o + 1] > nb_positions)
           => (objective_high_priority = 0 /\ objective_low_priority = 0)
      /\ (/\ initial_sequence = <<0, 0, 0>> /\ start_position = 0
          /\ nb_options = 1 /\ window_size = <<2>> /\ max_cars_per_window = <<1>>
          /\ options_data[1][1])
           => objective_high_priority + objective_low_priority = 2

\* C5 witness: with a fixed prefix of two cars and a window of two, the window
\* straddling the boundary is scanned and exceeds its capacity.
C5_Witness ==
    /\ pc = "return_204"
    /\ nb_positions = 3 /\ start_position = 2
    /\ nb_options = 1 /\ window_size = <<2>> /\ max_cars_per_window = <<1>>
    /\ ~is_priority_option[1]
    /\ RequiresAt(0, 0) /\ RequiresAt(1, 0) /\ RequiresAt(2, 0)
    /\ objective_low_priority = 1

\* ---------------------------------------------------------------------- C6
\* The positions p whose pair (p, p + 1) the claim counts.
C6_Pairs == Max(start_position - 1, 0) .. (nb_positions - 2)

\* C6: for a valid candidate the color component is the number of positions p
\* in max(start_position - 1, 0) .. nb_positions - 2 whose car differs in
\* color from the car at p + 1 (so the pair straddling the fixed prefix counts
\* and pairs inside the prefix do not); it is non-negative; and exchanging two
\* neighbouring free positions whose cars have the same color (the steps that
\* generate every rearrangement of a same-color run) leaves it unchanged.
C6_ColorChanges ==
    pc = "return_204" =>
      /\ objective_color
           = Cardinality({p \in C6_Pairs : ColorAt(p) # ColorAt(p + 1)})
      /\ objective_color >= 0
      /\ \A i \in start_position..(nb_positions - 2) :
            ColorAt(i) = ColorAt(i + 1)
              => ObjectiveColor(Reconstruct(SwapAdjacent(passed, i)))
                   = objective_color

\* C6 witness: the pair straddling the fixed prefix changes color and is
\* counted, and the two free cars, exchanged by the candidate, have one color.
C6_Witness ==
    /\ pc = "return_204"
    /\ nb_positions = 3 /\ start_position = 1
    /\ passed = <<0, 2, 1>>
    /\ ColorAt(0) # ColorAt(1) /\ ColorAt(1) = ColorAt(2)
    /\ objective_color = 1

\* ---------------------------------------------------------------------- C7
\* C7: an instance that exists and has no low priority option carries a
\* two-term objective_order (COLOR_HIGH_LOW became COLOR_HIGH, HIGH_COLOR_LOW
\* and HIGH_LOW_COLOR became HIGH_COLOR), whichever way it was constructed.
C7_OrderNormalized ==
    (pc = "ready" /\ ~has_low_priority_options)
      => objective_order \notin {COLOR_HIGH_LOW, HIGH_LOW_COLOR, HIGH_COLOR_LOW}

\* ---------------------------------------------------------------------- C9
\* The permutations of 0..nb_positions-1 that keep the fixed prefix.
C9_FixedPrefixPermutations ==
    {t \in Shuffles(Identity) : \A p \in 0..(start_position - 1) : t[p + 1] = p}

\* C9: random_solution returns nb_positions entries that are a permutation of
\* 0..nb_positions-1, with result[p] = p below start_position and the indices
\* start_position..nb_positions-1 rearranged above it; the result passes the
\* three checks of evaluate_solution; and every permutation that keeps the
\* fixed prefix is a result the call can return.
C9_RandomSolutionValid ==
    /\ pc = "return_216" =>
         /\ Len(result) = nb_positions
         /\ Permutes(result)
         /\ \A p \in 0..(start_position - 1) : result[p + 1] = p
         /\ {result[p + 1] : p \in start_position..(nb_positions - 1)}
              = start_position..(nb_positions - 1)
         /\ HasRightLength(TRUE, result)
         /\ IsPermutation(result)
         /\ PrefixStop(result, 0) = -1
    /\ pc = "ready" =>
         \A t \in C9_FixedPrefixPermutations :
            ENABLED (RandomSolution /\ result' = t)

\* C9 witness: with one fixed position the call returned the free indices in
\* exchanged order.
C9_Witness ==
    /\ pc = "return_216"
    /\ nb_positions = 3 /\ start_position = 1
    /\ result = <<0, 2, 1>>

\* --------------------------------------------------------------------- C10
\* C10: no step taken once the instance exists changes a field of the
\* instance, and a call of evaluate_solution leaves the caller's candidate as
\* it was passed; so every call on the same candidate reads the same instance
\* and the same candidate.
C10_ReadOnly ==
    [][/\ pc \notin {"new"} => instance' = instance
       /\ pc = "ready" /\ pc' \in {"return_151", "return_154", "return_158",
                                   "return_204", "IndexError"}
            => solution' = passed']_vars

\* C10 witness: a candidate that is not in ascending order was evaluated to a
\* score, and the caller still holds it in the order passed.
C10_Witness ==
    /\ pc = "return_204"
    /\ passed = <<2, 0, 1>>
    /\ solution = <<2, 0, 1>>
    /\ result < PENALTY

\* ---------------------------------------------------------------------- C2
\* The instance is one a file yields too: has_low_priority_options says
\* whether an option is not high priority, and without such an option
\* objective_order is a two-term code.
C2_AsLoaded ==
    /\ has_low_priority_options
         = (\E o \in 1..nb_options : ~is_priority_option[o])
    /\ ~has_low_priority_options
         => objective_order \notin {COLOR_HIGH_LOW, HIGH_LOW_COLOR, HIGH_COLOR_LOW}

\* C2: on such an instance the score of a candidate that passes the three
\* checks is strictly below the sentinel.
C2_ScoreBelowPenalty == (pc = "return_204" /\ C2_AsLoaded) => result < PENALTY

\* ---------------------------------------------------------------------- C3
\* The six formulas of C3 and its two scored examples.
C3_Formulas ==
    LET c == objective_color
        h == objective_high_priority
        l == objective_low_priority
    IN  /\ objective_order = 0 => result = c * 100000000 + h * 10000 + l
        /\ objective_order = 1 => result = h * 100000000 + l * 10000 + c
        /\ objective_order = 2 => result = h * 100000000 + c * 10000 + l
        /\ objective_order = 3 => result = c * 10000 + h
        /\ objective_order = 4 => result = h * 10000 + c
        /\ objective_order \notin 0..4 => result = c + h + l
        /\ (/\ initial_sequence = <<0, 1, 0, 1, 0>> /\ color_class = <<1, 2>>
            /\ nb_options = 0 /\ start_position = 0
            /\ passed = <<0, 1, 2, 3, 4>>)
             => /\ c = 4
                /\ objective_order = 5 => result = 4
                /\ objective_order = 3 => result = 40000

\* C3 as stated: the value returned for a valid candidate is the combination
\* of the three totals that objective_order selects, with M = 10000; it is 0
\* exactly when the three totals are 0; and the alternating plan of 5
\* positions with no option scores 4 under a code outside the five and 40000
\* under COLOR_HIGH.
C3_Combination ==
    pc = "return_204" =>
      /\ C3_Formulas
      /\ result = 0 <=> (/\ objective_color = 0
                         /\ objective_high_priority = 0
                         /\ objective_low_priority = 0)

\* C3 amended: the same, except that under COLOR_HIGH and HIGH_COLOR, whose
\* formulas leave the low priority total out, the value is 0 exactly when the
\* color and high priority totals are 0.
C3_CombinationAmended ==
    pc = "return_204" =>
      /\ C3_Formulas
      /\ result = 0 <=> (/\ objective_color = 0
                         /\ objective_high_priority = 0
                         /\ \/ objective_low_priority = 0
                            \/ objective_order \in {COLOR_HIGH, HIGH_COLOR})

\* C3 witness: the alternating plan of 5 positions, no option, identity
\* candidate, under COLOR_HIGH.
C3_Witness ==
    /\ pc = "return_204"
    /\ initial_sequence = <<0, 1, 0, 1, 0>> /\ color_class = <<1, 2>>
    /\ nb_options = 0 /\ start_position = 0 /\ objective_order = COLOR_HIGH
    /\ passed = <<0, 1, 2, 3, 4>>
    /\ result = 40000

\* ---------------------------------------------------------------------- C4
\* The three totals of the valid candidate s, as evaluate_solution computes
\* them.
C4_Totals(s) ==
    <<ObjectiveColor(Reconstruct(s)), ObjectiveHighPriority(Reconstruct(s)),
      ObjectiveLowPriority(Reconstruct(s))>>

\* The totals t = <<color, high, low>> arranged in the priority order the
\* code names.
C4_Key(t) ==
    IF objective_order = COLOR_HIGH_LOW THEN <<t[1], t[2], t[3]>>
    ELSE IF objective_order = HIGH_LOW_COLOR THEN <<t[2], t[3], t[1]>>
    ELSE IF objective_order = HIGH_COLOR_LOW THEN <<t[2], t[1], t[3]>>
    ELSE IF objective_order = COLOR_HIGH THEN <<t[1], t[2]>>
    ELSE <<t[2], t[1]>>

C4_LexLess(x, y) ==
    \E i \in 1..Len(x) : x[i] < y[i] /\ \A j \in 1..(i - 1) : x[j] = y[j]

\* The candidates near the identity that pass the three checks.
C4_ValidNear ==
    {s \in NearIdentity(nb_positions) : Permutes(s) /\ ~BreaksPrefix(s)}

\* C4: under one of the five codes, for the evaluated candidate a and any
\* other valid candidate b, all totals being below M, a scores below b exactly
\* when a's totals, in the priority order of the code, are lexicographically
\* smaller than b's, and they score the same exactly when those tuples agree.
C4_Lexicographic ==
    (pc = "return_204" /\ objective_order \in 0..4
       /\ objective_color < M /\ objective_high_priority < M
       /\ objective_low_priority < M)
    => \A b \in C4_ValidNear :
         LET ta == <<objective_color, objective_high_priority,
                     objective_low_priority>>
             tb == C4_Totals(b)
             sb == Overall(objective_order, tb[1], tb[2], tb[3])
         IN  (tb[1] < M /\ tb[2] < M /\ tb[3] < M)
               => /\ result < sb <=> C4_LexLess(C4_Key(ta), C4_Key(tb))
                  /\ result = sb <=> C4_Key(ta) = C4_Key(tb)

\* C4 witness: under HIGH_COLOR_LOW the evaluated candidate has more high
\* priority violations but fewer color changes than the identity, and scores
\* above it.
C4_Witness ==
    /\ pc = "return_204" /\ objective_order = HIGH_COLOR_LOW
    /\ objective_high_priority > C4_Totals(Identity)[2]
    /\ objective_color < C4_Totals(Identity)[1]
    /\ result > Overall(objective_order, C4_Totals(Identity)[1],
                        C4_Totals(Identity)[2], C4_Totals(Identity)[3])

\* ---------------------------------------------------------------------- C8
\* C8: an instance that exists satisfies the data-model invariants:
\* start_position in 0..nb_positions, a plan of nb_positions valid class
\* indices, per-option arrays and per-class requirement vectors of nb_options
\* entries (construction from anything else having failed with an error).
C8_ConstructedIsConsistent ==
    pc = "ready" =>
      /\ 0 <= start_position /\ start_position <= nb_positions
      /\ Len(initial_sequence) = nb_positions
      /\ \A p \in 1..Len(initial_sequence) :
            initial_sequence[p] \in 0..(Len(color_class) - 1)
      /\ Len(max_cars_per_window) = nb_options
      /\ Len(window_size) = nb_options
      /\ Len(is_priority_option) = nb_options
      /\ Len(options_data) = Len(color_class)
      /\ \A c \in 1..Len(options_data) : Len(options_data[c]) = nb_options

====
